---------------------------- MODULE Spec2Model ----------------------------
(***************************************************************************)
(* A model of the EBIN builder, tools/ebin_builder/ebin_builder.py:        *)
(* the pipeline main() drives (probe, compile, link, extract sections,     *)
(* resolve entry, extract relocations, serialize, write) and the byte      *)
(* layout build_ebin produces.                                             *)
(*                                                                         *)
(* Bytes are integers 0..255 and blobs are sequences of bytes.  External   *)
(* tools (gcc, ld, readelf, objcopy, nm) are the environment: what each    *)
(* invocation answers is chosen when it is first made and recorded in      *)
(* toolout, so that a later run of the pipeline on the same inputs gets    *)
(* the same answers.                                                       *)
(***************************************************************************)
EXTENDS Integers, Sequences, FiniteSets, TLC

VARIABLES
    config,          \* EbinConfig: the parsed command line and the toolchain prefix
    toolout,         \* what each external tool invocation answered (None: not yet run)
    pc,              \* position of main()
    exitcode,        \* exit status: <<>> while running, <<n>> once exit n is under way
    tmpdir,          \* TRUE while the TemporaryDirectory of main() exists
    wsfiles,         \* names of the files inside the workspace directory
    strays,          \* files left outside the workspace other than the output
    obj_files,       \* compile_sources: object files produced so far
    code,            \* code blob (bytes)
    data,            \* data blob (bytes)
    bss_size,
    entry_offset,
    relocations,     \* sequence of Relocation records
    got_reloc_count, \* extract_relocations: number of synthesized GOT relocations
    ebin_data,       \* result of build_ebin (empty before)
    outfile,         \* the output path: [exists, bytes]
    run,             \* number of the current run of the tool
    produced         \* the streams written by the successful runs so far

vars == <<config, toolout, pc, exitcode, tmpdir, wsfiles, strays, obj_files,
          code, data, bss_size, entry_offset, relocations, got_reloc_count,
          ebin_data, outfile, run, produced>>

None == "None"

-----------------------------------------------------------------------------
(* Bounds of the model *)

MaxCodeLen == 5
MaxDataLen == 3
MaxRelocs == 2
MaxGot == 4
MaxRuns == 2

-----------------------------------------------------------------------------
(* Format constants *)

EBIN_MAGIC == 1313423941
EBIN_VERSION == 1
EBIN_RELOC_ABSOLUTE == 0
EBIN_RELOC_LOW16 == 3
HEADER_SIZE == 60
RELOC_ENTRY_SIZE == 8
EBIN_FLAG_DEBUG == 2

COMPONENT_TYPES == [cpu |-> 1, video |-> 2, audio |-> 3, io |-> 4]

-----------------------------------------------------------------------------
(* struct.pack / struct.unpack, little-endian *)

RECURSIVE Pow256(_)
Pow256(k) == IF k = 0 THEN 1 ELSE 256 * Pow256(k - 1)

\* struct.pack raises struct.error when the value does not fit the field.
\* The model's integers stay below 2^31, so for the 4-byte field only the
\* sign can make a value unpackable.
Packable(width, v) ==
    IF width = 4 THEN v >= 0 ELSE v >= 0 /\ v < Pow256(width)

\* The `width` bytes of v, least significant first.
PackLE(width, v) == [i \in 1..width |-> (v \div Pow256(i - 1)) % 256]

\* struct.unpack('<I' / '<H' / '<B') of the `width` bytes of s at offset o.
RECURSIVE UnpackLE(_, _, _)
UnpackLE(s, o, width) ==
    IF width = 0 THEN 0
    ELSE s[o + 1] + 256 * UnpackLE(s, o + 1, width - 1)

RECURSIVE Concat(_)
Concat(ss) == IF ss = <<>> THEN <<>> ELSE Head(ss) \o Concat(Tail(ss))

Zeros(n) == [i \in 1..n |-> 0]

-----------------------------------------------------------------------------
(* build_ebin *)

\* code after "Pad to 4-byte alignment"
PadCodeAlways(c) == c \o Zeros(4 - (Len(c) % 4))
PadCode(c) ==
    IF (Len(c) % 4) # 0 THEN c \o Zeros(4 - (Len(c) % 4)) ELSE c

\* struct.pack('<IBBH', r.offset, r.reloc_type, r.section, 0)
PackRelocSwapped(r) ==
    PackLE(4, r.offset) \o PackLE(1, r.section) \o PackLE(1, r.reloc_type)
        \o PackLE(2, 0)
PackReloc(r) ==
    PackLE(4, r.offset) \o PackLE(1, r.reloc_type) \o PackLE(1, r.section)
        \o PackLE(2, 0)

RelocPackable(r) ==
    Packable(4, r.offset) /\ Packable(1, r.reloc_type) /\ Packable(1, r.section)

RelocTable(relocs) == Concat([i \in 1..Len(relocs) |-> PackReloc(relocs[i])])

\* The sixteen header fields in the order of the format string
\* '<IHHIIIIIIIIIIIII', each with its width.
HeaderFieldsUnpadded(cfg, c, d, bss, entry, relocs) ==
    LET code_offset == HEADER_SIZE + Len(relocs) * RELOC_ENTRY_SIZE
        data_offset == code_offset + Len(c)
    IN  << <<4, EBIN_MAGIC>>,
           <<2, EBIN_VERSION>>,
           <<2, COMPONENT_TYPES[cfg.component_type]>>,
           <<4, cfg.flags>>,
           <<4, Len(c)>>,
           <<4, Len(d)>>,
           <<4, bss>>,
           <<4, entry>>,
           <<4, cfg.interface_version>>,
           <<4, cfg.min_ram>>,
           <<4, Len(relocs)>>,
           <<4, HEADER_SIZE>>,
           <<4, code_offset>>,
           <<4, data_offset>>,
           <<4, 0>>,
           <<4, 0>> >>
HeaderFields(cfg, c, d, bss, entry, relocs) ==
    LET padded == PadCode(c)
        code_offset == HEADER_SIZE + Len(relocs) * RELOC_ENTRY_SIZE
        data_offset == code_offset + Len(padded)
    IN  << <<4, EBIN_MAGIC>>,
           <<2, EBIN_VERSION>>,
           <<2, COMPONENT_TYPES[cfg.component_type]>>,
           <<4, cfg.flags>>,
           <<4, Len(padded)>>,
           <<4, Len(d)>>,
           <<4, bss>>,
           <<4, entry>>,
           <<4, cfg.interface_version>>,
           <<4, cfg.min_ram>>,
           <<4, Len(relocs)>>,
           <<4, HEADER_SIZE>>,
           <<4, code_offset>>,
           <<4, data_offset>>,
           <<4, 0>>,
           <<4, 0>> >>

PackHeaderAllWords(fields) ==
    Concat([i \in 1..Len(fields) |-> PackLE(4, fields[i][2])])
PackHeader(fields) ==
    Concat([i \in 1..Len(fields) |-> PackLE(fields[i][1], fields[i][2])])

\* build_ebin raises (struct.error) instead of returning when a value does
\* not fit its field.
BuildRaises(cfg, c, d, bss, entry, relocs) ==
    LET f == HeaderFields(cfg, c, d, bss, entry, relocs)
    IN  \/ \E i \in 1..Len(f) : ~Packable(f[i][1], f[i][2])
        \/ \E i \in 1..Len(relocs) : ~RelocPackable(relocs[i])

\* header + reloc_data + code + data
build_ebin(cfg, c, d, bss, entry, relocs) ==
    PackHeader(HeaderFields(cfg, c, d, bss, entry, relocs))
        \o RelocTable(relocs) \o PadCode(c) \o d

-----------------------------------------------------------------------------
(* The linked ELF, as the toolchain's tools report it.                       *)
(*                                                                           *)
(* An ELF is given by the sizes of its output sections (0: the linker drops  *)
(* an empty output section, so the section is absent), the number of GOT     *)
(* entries, and where .data holds absolute pointers (data_relocs: their      *)
(* offsets inside .data).  Addresses follow the linker script, from the      *)
(* address `base` of the first section on.  `listing` holds lines readelf -r *)
(* prints ahead of those derived from the GOT and from data_relocs.          *)

Align4(x) == ((x + 3) \div 4) * 4

SectionNames == <<"text", "rodata", "data", "got", "bss">>

SectionSize(elf, name) ==
    CASE name = "text" -> elf.text
      [] name = "rodata" -> elf.rodata
      [] name = "data" -> elf.data
      [] name = "got" -> 4 * elf.got
      [] name = "bss" -> elf.bss

\* create_linker_script: ". = 0", then each output section after ". = ALIGN(4)".
RECURSIVE SectionAddrAt(_, _)
SectionAddrAt(elf, k) ==
    IF k = 1 THEN elf.base
    ELSE Align4(SectionAddrAt(elf, k - 1) + SectionSize(elf, SectionNames[k - 1]))

SectionIndex(name) == CHOOSE k \in 1..Len(SectionNames) : SectionNames[k] = name

SectionAddr(elf, name) == SectionAddrAt(elf, SectionIndex(name))

Present(elf, name) == SectionSize(elf, name) > 0

\* The word stored in GOT entry i (1-based): the address of a global of the
\* component, with every third slot a null sentinel.
GotWord(i) == IF i % 3 = 2 THEN 0 ELSE 4 * i

\* The byte the ELF holds at virtual address a (0 outside every section and
\* in .bss, which has no file contents).
ByteAt(elf, a) ==
    LET In(name) == /\ Present(elf, name)
                    /\ a >= SectionAddr(elf, name)
                    /\ a < SectionAddr(elf, name) + SectionSize(elf, name)
        rel(name) == a - SectionAddr(elf, name)
    IN  CASE In("text") -> 16 + rel("text")
          [] In("rodata") -> 48 + rel("rodata")
          [] In("data") -> 96 + rel("data")
          [] In("got") ->
                PackLE(4, GotWord((rel("got") \div 4) + 1))[(rel("got") % 4) + 1]
          [] OTHER -> 0

\* readelf -S: one line per section present, [name, addr, size].
SectionTable(elf) ==
    LET Line(k) == [name |-> SectionNames[k],
                    addr |-> SectionAddrAt(elf, k),
                    size |-> SectionSize(elf, SectionNames[k])]
        RECURSIVE From(_)
        From(k) ==
            IF k > Len(SectionNames) THEN <<>>
            ELSE (IF Present(elf, SectionNames[k]) THEN <<Line(k)>> ELSE <<>>)
                     \o From(k + 1)
    IN  From(1)

\* objcopy -O binary -j ...: the bytes from the lowest address of a selected
\* section present in the ELF to the highest end, gaps filled with zero.
Objcopy(elf, names) ==
    LET sel == {n \in names : Present(elf, n) /\ n # "bss"}
    IN  IF sel = {} THEN <<>>
        ELSE LET lo == CHOOSE a \in {SectionAddr(elf, n) : n \in sel} :
                           \A n \in sel : a <= SectionAddr(elf, n)
                 hi == CHOOSE e \in {SectionAddr(elf, n) + SectionSize(elf, n) : n \in sel} :
                           \A n \in sel : e >= SectionAddr(elf, n) + SectionSize(elf, n)
             IN  [k \in 1..(hi - lo) |-> ByteAt(elf, lo + k - 1)]

\* nm: one line [addr, name] per symbol: the entry function at the start of
\* .text, a global "state" at the start of .data, a global "buf" at the start
\* of .bss.
SymbolTable(elf) ==
    (IF Present(elf, "text")
        THEN <<[addr |-> SectionAddr(elf, "text"), name |-> "component_entry"]>>
        ELSE <<>>)
    \o (IF Present(elf, "data")
        THEN <<[addr |-> SectionAddr(elf, "data"), name |-> "state"]>>
        ELSE <<>>)
    \o (IF Present(elf, "bss")
        THEN <<[addr |-> SectionAddr(elf, "bss"), name |-> "buf"]>>
        ELSE <<>>)

\* readelf -r: the lines of the relocation listing.  Code that reaches the
\* GOT carries a PC-relative relocation in .rela.text; an absolute pointer
\* stored in .data carries an R_RISCV_32 in .rela.data.
RelocListing(elf) ==
    elf.listing
    \o (IF Present(elf, "text") /\ Present(elf, "got")
        THEN << [kind |-> "section", name |-> ".rela.text", offset |-> 0, type |-> ""],
                [kind |-> "entry", name |-> "", offset |-> SectionAddr(elf, "text"),
                 type |-> "R_RISCV_GOT_HI20"] >>
        ELSE <<>>)
    \o (IF elf.data_relocs # <<>>
        THEN << [kind |-> "section", name |-> ".rela.data", offset |-> 0, type |-> ""] >>
             \o [i \in 1..Len(elf.data_relocs) |->
                    [kind |-> "entry", name |-> "",
                     offset |-> SectionAddr(elf, "data") + elf.data_relocs[i],
                     type |-> "R_RISCV_32"]]
        ELSE <<>>)

\* readelf -x .got: rows of up to four words, [addr, words].
HexDump(elf) ==
    LET n == elf.got
        Row(k) == [addr |-> SectionAddr(elf, "got") + 16 * (k - 1),
                   words |-> [j \in 1..(IF n - 4 * (k - 1) >= 4 THEN 4 ELSE n - 4 * (k - 1))
                                  |-> GotWord(4 * (k - 1) + j)]]
    IN  [k \in 1..((n + 3) \div 4) |-> Row(k)]

\* The ELFs the linker may produce.
DataShapes ==
    { [size |-> 0, relocs |-> <<>>], [size |-> 4, relocs |-> <<>>],
      [size |-> 4, relocs |-> <<0>>], [size |-> 5, relocs |-> <<1>>],
      [size |-> 8, relocs |-> <<4, 0>>] }

ElfFamily ==
    { [base |-> 0, text |-> t, rodata |-> r, data |-> d.size,
       data_relocs |-> d.relocs, got |-> g, bss |-> b, listing |-> <<>>] :
        t \in {0, 2, 4}, r \in {0, 4}, d \in DataShapes,
        g \in {0, 1, MaxGot}, b \in {0, 8} }

-----------------------------------------------------------------------------
(* extract_sections, get_entry_offset, extract_relocations: what each        *)
(* computes from the tools' output.                                          *)

\* sections[name] of extract_sections / section_addrs, section_sizes of
\* extract_relocations: the parsed lines of readelf -S (none when it failed).
HasSection(table, name) == \E i \in 1..Len(table) : table[i].name = name

SectionLine(table, name) ==
    table[CHOOSE i \in 1..Len(table) : table[i].name = name]

\* dict.get(name, default)
AddrOrZero(table, name, default) == 0
AddrOr(table, name, default) ==
    IF HasSection(table, name) THEN SectionLine(table, name).addr ELSE default

SizeOrNoDefault(table, name, default) ==
    IF HasSection(table, name) THEN SectionLine(table, name).size ELSE -1
SizeOr(table, name, default) ==
    IF HasSection(table, name) THEN SectionLine(table, name).size ELSE default

\* objcopy -j .text -j .rodata
CodeBlob(elf) == Objcopy(elf, {"text", "rodata"})

\* objcopy -j .data [-j .got]; b'' when objcopy fails
DataBlob(elf, table, ok) ==
    IF ok
    THEN Objcopy(elf, {"data"} \cup (IF HasSection(table, "got") THEN {"got"} ELSE {}))
    ELSE <<>>

\* entry_addr of get_entry_offset: the address on the last nm line naming
\* the symbol; <<>> stands for None.
EntryAddrDefaultsToZero(symbols, name) ==
    LET hits == {i \in 1..Len(symbols) : symbols[i].name = name}
    IN  IF hits = {} THEN <<0>>
        ELSE <<symbols[CHOOSE i \in hits : \A j \in hits : j <= i].addr>>
EntryAddr(symbols, name) ==
    LET hits == {i \in 1..Len(symbols) : symbols[i].name = name}
    IN  IF hits = {} THEN <<>>
        ELSE <<symbols[CHOOSE i \in hits : \A j \in hits : j <= i].addr>>

\* entry_addr - text_addr, with text_addr 0 when no .text line is found
EntryOffsetAbsolute(symbols, table, name) ==
    EntryAddr(symbols, name)[1]
EntryOffset(symbols, table, name) ==
    EntryAddr(symbols, name)[1] - AddrOr(table, "text", 0)

Relocation(off, type, sec) == [offset |-> off, reloc_type |-> type, section |-> sec]

\* The loop over the lines of readelf -r.  st is the loop's state:
\* relocations, current_section, current_base, in_data_reloc.
ScanLineNoReset(st, line, table) ==
    LET hdr == IF line.kind # "section" THEN st
               ELSE IF line.name = ".rela.data"
                    THEN [st EXCEPT !.current_section = 1,
                                    !.current_base = AddrOr(table, "data", 0),
                                    !.in_data_reloc = TRUE]
               ELSE IF line.name = ".rela.rodata"
                    THEN [st EXCEPT !.current_section = 1,
                                    !.current_base = AddrOr(table, "rodata", 0),
                                    !.in_data_reloc = TRUE]
               ELSE st
    IN  IF ~hdr.in_data_reloc /\ hdr.current_section = 0 THEN hdr
        ELSE IF line.kind = "entry" /\ line.type = "R_RISCV_32"
             THEN [hdr EXCEPT !.relocations =
                      Append(@, Relocation(line.offset - hdr.current_base,
                                           EBIN_RELOC_ABSOLUTE,
                                           hdr.current_section))]
             ELSE hdr
ScanLine(st, line, table) ==
    LET hdr == IF line.kind # "section" THEN st
               ELSE IF line.name = ".rela.data"
                    THEN [st EXCEPT !.current_section = 1,
                                    !.current_base = AddrOr(table, "data", 0),
                                    !.in_data_reloc = TRUE]
               ELSE IF line.name = ".rela.rodata"
                    THEN [st EXCEPT !.current_section = 1,
                                    !.current_base = AddrOr(table, "rodata", 0),
                                    !.in_data_reloc = TRUE]
               ELSE [st EXCEPT !.current_section = 0,
                               !.current_base = AddrOr(table, "text", 0),
                               !.in_data_reloc = FALSE]
    IN  IF ~hdr.in_data_reloc /\ hdr.current_section = 0 THEN hdr
        ELSE IF line.kind = "entry" /\ line.type = "R_RISCV_32"
             THEN [hdr EXCEPT !.relocations =
                      Append(@, Relocation(line.offset - hdr.current_base,
                                           EBIN_RELOC_ABSOLUTE,
                                           hdr.current_section))]
             ELSE hdr

RECURSIVE ScanLines(_, _, _)
ScanLines(st, lines, table) ==
    IF lines = <<>> THEN st
    ELSE ScanLines(ScanLine(st, Head(lines), table), Tail(lines), table)

ElfRelocations(lines, table) ==
    ScanLines([relocations |-> <<>>, current_section |-> 0,
               current_base |-> AddrOr(table, "text", 0),
               in_data_reloc |-> FALSE], lines, table).relocations

\* data_bytes.get(entry_addr, 0): the word the hex-dump parse recovered for
\* the address.  Only a row with four words matches the pattern.
DumpValueAnyRow(rows, a) ==
    LET hits == {k \in 1..Len(rows) :
                    a \in {rows[k].addr + 4 * i : i \in 0..(Len(rows[k].words) - 1)}}
    IN  IF hits = {} THEN 0
        ELSE LET k == CHOOSE k \in hits : \A j \in hits : j <= k
             IN  rows[k].words[((a - rows[k].addr) \div 4) + 1]
DumpValue(rows, a) ==
    LET hits == {k \in 1..Len(rows) :
                    /\ Len(rows[k].words) = 4
                    /\ a \in {rows[k].addr + 4 * i : i \in 0..3}}
    IN  IF hits = {} THEN 0
        ELSE LET k == CHOOSE k \in hits : \A j \in hits : j <= k
             IN  rows[k].words[((a - rows[k].addr) \div 4) + 1]

\* The GOT loop: the relocations synthesized for entries i..n-1 (in words)
\* of the GOT.
RECURSIVE GotRelocations(_, _, _, _, _)
GotRelocations(i, table, rows, existing, bss_end) ==
    IF 4 * i >= SizeOr(table, "got", 0) THEN <<>>
    ELSE LET entry_addr == SectionLine(table, "got").addr + 4 * i
             entry_value == DumpValue(rows, entry_addr)
             data_offset == entry_addr - AddrOr(table, "data", 0)
             rest == GotRelocations(i + 1, table, rows, existing, bss_end)
         IN  IF data_offset \in existing THEN rest
             ELSE IF 0 < entry_value /\ entry_value <= bss_end
                  THEN <<Relocation(data_offset, EBIN_RELOC_ABSOLUTE, 1)>> \o rest
                  ELSE rest

\* The synthesized relocations of extract_relocations, given what it mined
\* from the listing.
SynthesizedRelocationsGotEnd(mined, table, rows) ==
    IF HasSection(table, "got") /\ SizeOr(table, "got", 0) > 0
    THEN GotRelocations(0, table, rows,
             {mined[i].offset : i \in {j \in 1..Len(mined) : mined[j].section = 1}},
             IF HasSection(table, "bss")
             THEN AddrOr(table, "bss", 0) + SizeOr(table, "bss", 0)
             ELSE AddrOr(table, "got", 0) + SizeOr(table, "got", 0))
    ELSE <<>>
SynthesizedRelocations(mined, table, rows) ==
    IF HasSection(table, "got") /\ SizeOr(table, "got", 0) > 0
    THEN GotRelocations(0, table, rows,
             {mined[i].offset : i \in {j \in 1..Len(mined) : mined[j].section = 1}},
             AddrOr(table, "bss", 0) + SizeOr(table, "bss", 0))
    ELSE <<>>

\* extract_relocations: [] when readelf -r fails, else the mined relocations
\* followed by the synthesized ones.
extract_relocations_got_first(table, listing_ok, lines, rows) ==
    IF ~listing_ok THEN <<>>
    ELSE LET mined == ElfRelocations(lines, table)
         IN  SynthesizedRelocations(mined, table, rows) \o mined
extract_relocations(table, listing_ok, lines, rows) ==
    IF ~listing_ok THEN <<>>
    ELSE LET mined == ElfRelocations(lines, table)
         IN  mined \o SynthesizedRelocations(mined, table, rows)

-----------------------------------------------------------------------------
(* main(): the pipeline *)

\* find_toolchain: the candidate prefixes, in order
Prefixes == <<"riscv32-esp-elf-", "~/.espressif/.../riscv32-esp-elf-">>

\* What `gcc --version` may do for a candidate: exit 0, exit nonzero, or not
\* exist (FileNotFoundError).
ProbeOutcomes == {"ok", "nonzero", "missing"}

\* What each candidate's `gcc --version` would do, if it is run.
ProbeAnswers == [1..Len(Prefixes) -> ProbeOutcomes]

\* "result.returncode == 0", reached only when subprocess.run did not raise
\* FileNotFoundError
ProbeSucceedsIfPresent(outcome) == outcome # "missing"
ProbeSucceeds(outcome) == outcome = "ok"

\* The loop of find_toolchain from candidate k on: how many candidates were
\* run in all, and the prefix returned (<<>>: the loop ended, RuntimeError).
RECURSIVE Walk(_, _)
Walk(o, k) ==
    IF k > Len(Prefixes) THEN [tried |-> k - 1, prefix |-> <<>>]
    ELSE IF ProbeSucceeds(o[k]) THEN [tried |-> k, prefix |-> <<Prefixes[k]>>]
    ELSE Walk(o, k + 1)

find_toolchain(o) == Walk(o, 1)

Last(s) == s[Len(s)]

\* Command lines the model runs the tool on.
SourceLists ==
    {<<"main.c">>, <<"main.c", "util.c">>, <<"main.c", "lib/main.c">>}
EntrySymbols == {"component_entry", "state"}
OldContent == <<79, 76, 68>>

\* os.path.splitext(os.path.basename(src))[0] + '.o'
ObjName(src) ==
    CASE src = "main.c" -> "main.o"
      [] src = "util.c" -> "util.o"
      [] src = "lib/main.c" -> "main.o"
      [] OTHER -> "a.o"

NoTools ==
    [probe |-> <<>>, gcc |-> <<>>, ld |-> None, elf |-> <<>>,
     readelf_S |-> None, objcopy_code |-> None, objcopy_data |-> None,
     nm |-> None, readelf_r |-> None, readelf_x |-> None]

\* What an invocation may answer: what it answered before, if it ran before.
Answer(recorded) == IF recorded = None THEN {"ok", "fail"} ELSE {recorded}

\* What an objcopy invocation may do: exit 0 ("ok"), exit nonzero having
\* removed its output ("fail"), or be terminated (negative returncode)
\* with its output file left where it was being written ("killed").
ObjcopyAnswer(recorded) ==
    IF recorded = None THEN {"ok", "fail", "killed"} ELSE {recorded}

TheElf == toolout.elf[1]

Running == <<>>
Exited(status) == <<status>>

Init ==
    /\ \E src \in SourceLists, e \in EntrySymbols :
          config = [sources |-> src, component_type |-> "cpu",
                    entry_symbol |-> e, interface_version |-> 65536,
                    min_ram |-> 0, flags |-> 0, toolchain_prefix |-> None]
    /\ toolout = NoTools
    /\ pc = "probe"
    /\ exitcode = Running
    /\ tmpdir = FALSE
    /\ wsfiles = {}
    /\ strays = {}
    /\ obj_files = <<>>
    /\ code = <<>>
    /\ data = <<>>
    /\ bss_size = 0
    /\ entry_offset = 0
    /\ relocations = <<>>
    /\ got_reloc_count = 0
    /\ ebin_data = <<>>
    /\ outfile \in {[exists |-> FALSE, bytes |-> <<>>],
                    [exists |-> TRUE, bytes |-> OldContent]}
    /\ run = 1
    /\ produced = <<>>

\* The variables the stages compute.
results == <<code, data, bss_size, entry_offset, relocations, got_reloc_count,
             ebin_data>>

\* sys.exit(1), or an exception, inside the with block: the block is left
\* through the cleanup of the TemporaryDirectory.
Abort == pc' = "cleanup" /\ exitcode' = Exited(1)

\* main, "Find toolchain": toolout.probe records the outcomes of the
\* candidates that were run.
FindToolchain ==
    /\ pc = "probe"
    /\ \E o \in {x \in ProbeAnswers :
                     SubSeq(x, 1, Len(toolout.probe)) = toolout.probe} :
          LET found == find_toolchain(o)
          IN  /\ toolout' = [toolout EXCEPT !.probe = SubSeq(o, 1, found.tried)]
              /\ IF found.prefix # <<>>
                 THEN /\ config' = [config EXCEPT !.toolchain_prefix = found.prefix[1]]
                      /\ pc' = "workspace"
                      /\ exitcode' = exitcode
                 ELSE /\ config' = config
                      /\ pc' = "done"
                      /\ exitcode' = Exited(1)
    /\ UNCHANGED <<tmpdir, wsfiles, strays, obj_files, results, outfile, run,
                   produced>>

\* main, "with tempfile.TemporaryDirectory()" and create_linker_script
EnterWorkspace ==
    /\ pc = "workspace"
    /\ tmpdir' = TRUE
    /\ wsfiles' = {"component.ld"}
    /\ pc' = "compile"
    /\ UNCHANGED <<config, toolout, exitcode, strays, obj_files, results,
                   outfile, run, produced>>

\* compile_sources, "if result.returncode != 0"
CompileFailsNever(r) == FALSE
CompileFails(r) == r # "ok"

\* compile_sources: one iteration of the loop over config.sources
CompileSource ==
    /\ pc = "compile"
    /\ LET i == Len(obj_files) + 1
           src == config.sources[i]
       IN  \E r \in (IF Len(toolout.gcc) >= i THEN {toolout.gcc[i]}
                     ELSE {"ok", "fail"}) :
             /\ toolout' = [toolout EXCEPT
                               !.gcc = IF Len(@) >= i THEN @ ELSE Append(@, r)]
             /\ IF ~CompileFails(r)
                THEN /\ obj_files' = Append(obj_files, ObjName(src))
                     /\ wsfiles' = wsfiles \cup {ObjName(src)}
                     /\ pc' = IF i = Len(config.sources) THEN "link" ELSE "compile"
                     /\ exitcode' = exitcode
                ELSE /\ Abort
                     /\ UNCHANGED <<obj_files, wsfiles>>
    /\ UNCHANGED <<config, tmpdir, strays, results, outfile, run, produced>>

\* link_object, "if result.returncode != 0"
LinkFailsNever(r) == FALSE
LinkFails(r) == r # "ok"

\* link_object
LinkObject ==
    /\ pc = "link"
    /\ \E r \in Answer(toolout.ld) :
          IF ~LinkFails(r)
          THEN /\ \E elf \in (IF toolout.elf = <<>> THEN ElfFamily ELSE {TheElf}) :
                     toolout' = [toolout EXCEPT !.ld = r, !.elf = <<elf>>]
               /\ wsfiles' = wsfiles \cup {"component.elf"}
               /\ pc' = "sections"
               /\ exitcode' = exitcode
          ELSE /\ toolout' = [toolout EXCEPT !.ld = r]
               /\ Abort
               /\ wsfiles' = wsfiles
    /\ UNCHANGED <<config, tmpdir, strays, obj_files, results, outfile, run,
                   produced>>

\* The files of tempfile.mktemp(suffix='.bin') that extract_sections has not
\* unlinked when it is left: code_bin is unlinked after it was read, which a
\* failing objcopy (check=True raises) prevents; data_bin is unlinked only
\* in the branch taken when objcopy exited 0.  The paths are in the system's
\* temporary directory, not in the workspace.
LeftBehind(rc, rd) ==
    IF rc # "ok" THEN (IF rc = "killed" THEN {"code_bin"} ELSE {})
    ELSE IF rd = "killed" THEN {"data_bin"} ELSE {}

\* extract_sections: readelf -S (exit on failure), objcopy of the code
\* (check=True: raises on failure), objcopy of the data (failure gives b'')
ExtractSections ==
    /\ pc = "sections"
    /\ \E rs \in Answer(toolout.readelf_S),
          rc \in ObjcopyAnswer(toolout.objcopy_code),
          rd \in ObjcopyAnswer(toolout.objcopy_data) :
          IF rs = "fail"
          THEN /\ toolout' = [toolout EXCEPT !.readelf_S = rs]
               /\ Abort
               /\ UNCHANGED <<code, data, bss_size, strays>>
          ELSE IF rc # "ok"
          THEN /\ toolout' = [toolout EXCEPT !.readelf_S = rs, !.objcopy_code = rc]
               /\ Abort
               /\ strays' = strays \cup LeftBehind(rc, rd)
               /\ UNCHANGED <<code, data, bss_size>>
          ELSE /\ toolout' = [toolout EXCEPT !.readelf_S = rs, !.objcopy_code = rc,
                                             !.objcopy_data = rd]
               /\ code' = CodeBlob(TheElf)
               /\ data' = DataBlob(TheElf, SectionTable(TheElf), rd = "ok")
               /\ bss_size' = SizeOr(SectionTable(TheElf), "bss", 0)
               /\ strays' = strays \cup LeftBehind(rc, rd)
               /\ pc' = "entry"
               /\ exitcode' = exitcode
    /\ UNCHANGED <<config, tmpdir, wsfiles, obj_files, entry_offset,
                   relocations, got_reloc_count, ebin_data, outfile, run, produced>>

\* The entry symbol is in the symbol table nm prints.
EntryFound == EntryAddr(SymbolTable(TheElf), config.entry_symbol) # <<>>

\* get_entry_offset: nm (exit on failure), exit when the symbol is absent
GetEntryOffsetReturnsAlways(r) == TRUE
GetEntryOffsetReturns(r) == r = "ok" /\ EntryFound

GetEntryOffset ==
    /\ pc = "entry"
    /\ \E r \in Answer(toolout.nm) :
          /\ toolout' = [toolout EXCEPT !.nm = r]
          /\ IF GetEntryOffsetReturns(r)
             THEN /\ entry_offset' =
                        IF EntryFound
                        THEN EntryOffset(SymbolTable(TheElf), SectionTable(TheElf),
                                         config.entry_symbol)
                        ELSE 0
                  /\ pc' = "relocs"
                  /\ exitcode' = exitcode
             ELSE /\ Abort
                  /\ entry_offset' = entry_offset
    /\ UNCHANGED <<config, tmpdir, wsfiles, strays, obj_files, code, data,
                   bss_size, relocations, got_reloc_count, ebin_data, outfile,
                   run, produced>>

\* readelf -x .got runs only when the section table shows a non-empty .got
\* and readelf -r succeeded.
DumpsGot(listing) == listing = "ok" /\ SizeOr(SectionTable(TheElf), "got", 0) > 0

\* extract_relocations
ExtractRelocations ==
    /\ pc = "relocs"
    /\ \E rr \in Answer(toolout.readelf_r), rx \in Answer(toolout.readelf_x) :
          LET table == SectionTable(TheElf)
              rows == IF rx = "ok" THEN HexDump(TheElf) ELSE <<>>
              mined == ElfRelocations(RelocListing(TheElf), table)
              all == extract_relocations(table, rr = "ok", RelocListing(TheElf), rows)
          IN  /\ toolout' = [toolout EXCEPT
                                !.readelf_r = rr,
                                !.readelf_x = IF DumpsGot(rr) THEN rx ELSE @]
              /\ relocations' = all
              /\ got_reloc_count' = IF rr = "ok" THEN Len(all) - Len(mined) ELSE 0
    /\ pc' = "cleanup"
    /\ UNCHANGED <<config, exitcode, tmpdir, wsfiles, strays, obj_files, code,
                   data, bss_size, entry_offset, ebin_data, outfile, run, produced>>

\* The end of the with block, reached by falling out of it or by an exit or
\* exception inside it: the TemporaryDirectory is removed.  AfterCleanup is
\* whether the directory still exists afterwards.
AfterCleanupOnSuccessOnly == tmpdir /\ exitcode # Running
AfterCleanup == FALSE

LeaveWorkspace ==
    /\ pc = "cleanup"
    /\ tmpdir' = AfterCleanup
    /\ wsfiles' = IF tmpdir' THEN wsfiles ELSE {}
    /\ pc' = IF exitcode = Running THEN "build" ELSE "done"
    /\ UNCHANGED <<config, toolout, exitcode, strays, obj_files, results,
                   outfile, run, produced>>

\* main, "Build EBIN": build_ebin, which may raise
BuildEbin ==
    /\ pc = "build"
    /\ IF BuildRaises(config, code, data, bss_size, entry_offset, relocations)
       THEN /\ pc' = "done"
            /\ exitcode' = Exited(1)
            /\ ebin_data' = ebin_data
       ELSE /\ pc' = "open"
            /\ exitcode' = exitcode
            /\ ebin_data' = build_ebin(config, code, data, bss_size, entry_offset,
                                       relocations)
    /\ UNCHANGED <<config, toolout, tmpdir, wsfiles, strays, obj_files, code,
                   data, bss_size, entry_offset, relocations, got_reloc_count,
                   outfile, run, produced>>

\* What the file holds once open(args.output, 'wb') has succeeded, given
\* what it held: mode 'wb' truncates.
OpenedContentAppends(old) == old
OpenedContent(old) == <<>>

\* main, "with open(args.output, 'wb')": creates or truncates the file,
\* or raises OSError
OpenOutput ==
    /\ pc = "open"
    /\ \E ok \in BOOLEAN :
          IF ok
          THEN /\ outfile' = [exists |-> TRUE, bytes |-> OpenedContent(outfile.bytes)]
               /\ pc' = "write"
               /\ exitcode' = exitcode
          ELSE /\ outfile' = outfile
               /\ pc' = "done"
               /\ exitcode' = Exited(1)
    /\ UNCHANGED <<config, toolout, tmpdir, wsfiles, strays, obj_files, results,
                   run, produced>>

\* How many bytes may have reached the file when the write fails (OSError):
\* none, the header, or all but the last byte.
FailedWriteLengths(stream) ==
    {n \in {0, HEADER_SIZE, Len(stream) - 1} : n >= 0 /\ n < Len(stream)}

\* main, "f.write(ebin_data)" and the close of the file
WriteOutput ==
    /\ pc = "write"
    /\ \E n \in FailedWriteLengths(ebin_data) \cup {Len(ebin_data)} :
          /\ outfile' = [exists |-> TRUE,
                          bytes |-> outfile.bytes \o SubSeq(ebin_data, 1, n)]
          /\ IF n = Len(ebin_data)
             THEN /\ exitcode' = Exited(0)
                  /\ produced' = Append(produced, outfile'.bytes)
             ELSE /\ exitcode' = Exited(1)
                  /\ produced' = produced
    /\ pc' = "done"
    /\ UNCHANGED <<config, toolout, tmpdir, wsfiles, strays, obj_files, results,
                   run>>

Next ==
    \/ FindToolchain
    \/ EnterWorkspace
    \/ CompileSource
    \/ LinkObject
    \/ ExtractSections
    \/ GetEntryOffset
    \/ ExtractRelocations
    \/ LeaveWorkspace
    \/ BuildEbin
    \/ OpenOutput
    \/ WriteOutput

Spec == Init /\ [][Next]_vars

\* The pipeline for a toolchain whose linker is known to produce one of a few
\* ELFs (without a GOT; with and without .data and a relocation in it).
InitFair ==
    /\ \E src \in SourceLists, e \in EntrySymbols :
          config = [sources |-> src, component_type |-> "cpu",
                    entry_symbol |-> e, interface_version |-> 65536,
                    min_ram |-> 0, flags |-> 0, toolchain_prefix |-> None]
    /\ \E elf \in {x \in ElfFamily : x.text = 4 /\ x.rodata = 0 /\ x.got = 0 /\ x.bss = 8} :
          toolout = [NoTools EXCEPT !.elf = <<elf>>]
    /\ pc = "probe"
    /\ exitcode = Running
    /\ tmpdir = FALSE
    /\ wsfiles = {}
    /\ strays = {}
    /\ obj_files = <<>>
    /\ code = <<>>
    /\ data = <<>>
    /\ bss_size = 0
    /\ entry_offset = 0
    /\ relocations = <<>>
    /\ got_reloc_count = 0
    /\ ebin_data = <<>>
    /\ outfile = [exists |-> FALSE, bytes |-> <<>>]
    /\ run = 1
    /\ produced = <<>>

\* main is one sequential thread of control: a step that can be taken is taken.
FairSpec == InitFair /\ [][Next]_vars /\ WF_vars(Next)

\* The tool is run again on the same command line, with the same toolchain
\* (toolout keeps what each tool answered) and the file system as the
\* earlier run left it.
Rerun ==
    /\ pc = "done"
    /\ run < MaxRuns
    /\ run' = run + 1
    /\ pc' = "probe"
    /\ exitcode' = Running
    /\ config' = [config EXCEPT !.toolchain_prefix = None]
    /\ obj_files' = <<>>
    /\ code' = <<>>
    /\ data' = <<>>
    /\ bss_size' = 0
    /\ entry_offset' = 0
    /\ relocations' = <<>>
    /\ got_reloc_count' = 0
    /\ ebin_data' = <<>>
    /\ UNCHANGED <<toolout, tmpdir, wsfiles, strays, outfile, produced>>

InitRerun ==
    /\ Init
    /\ config.sources = <<"main.c">>
    /\ outfile.exists

NextRerun == Next \/ Rerun

SpecRerun == InitRerun /\ [][NextRerun]_vars

-----------------------------------------------------------------------------
(* build_ebin on its own: any code, data, relocation list, entry offset and  *)
(* configuration, handed to the "Build EBIN" step of main.                   *)

\* A blob of n bytes, distinct and nonzero: base+1, base+2, ...
Blob(n, base) == [i \in 1..n |-> base + i]

\* Relocation entries build_ebin may be handed, one of them with an offset
\* struct.pack refuses.
RelocPool ==
    {Relocation(o, t[1], t[2]) :
        o \in {-4, 0, 260}, t \in {<<EBIN_RELOC_ABSOLUTE, 0>>, <<EBIN_RELOC_LOW16, 1>>}}

RECURSIVE SeqsUpTo(_, _)
SeqsUpTo(S, n) ==
    IF n = 0 THEN {<<>>}
    ELSE LET shorter == SeqsUpTo(S, n - 1)
         IN  shorter \cup {Append(q, x) : q \in shorter, x \in S}

InitBuild ==
    /\ \E t \in {<<"cpu", 0>>, <<"io", EBIN_FLAG_DEBUG>>} :
          config = [sources |-> <<"main.c">>, component_type |-> t[1],
                    entry_symbol |-> "component_entry",
                    interface_version |-> 65536, min_ram |-> 0, flags |-> t[2],
                    toolchain_prefix |-> Prefixes[1]]
    /\ toolout = NoTools
    /\ pc = "build"
    /\ exitcode = Running
    /\ tmpdir = FALSE
    /\ wsfiles = {}
    /\ strays = {}
    /\ obj_files = <<>>
    /\ code \in {Blob(n, 16) : n \in 0..MaxCodeLen}
    /\ data \in {Blob(n, 96) : n \in 0..MaxDataLen}
    /\ bss_size = 8
    /\ entry_offset \in {-2, 0, 2}
    /\ relocations \in SeqsUpTo(RelocPool, MaxRelocs)
    /\ got_reloc_count = 0
    /\ ebin_data = <<>>
    /\ outfile = [exists |-> FALSE, bytes |-> <<>>]
    /\ run = 1
    /\ produced = <<>>

NextBuild == BuildEbin

SpecBuild == InitBuild /\ [][NextBuild]_vars

-----------------------------------------------------------------------------
(* get_entry_offset on its own: main has come to "Get entry offset" with a   *)
(* linked ELF whose first section may lie at an address other than 0.        *)

EntryBases == {0, 16}

EntryFamily == {[elf EXCEPT !.base = b] : elf \in ElfFamily, b \in EntryBases}

\* The state of main after extract_sections returned for ELF elf, nm having
\* answered nm_answer (None: not run yet).
Extracted(elf, nm_answer) ==
    /\ toolout = [NoTools EXCEPT !.probe = <<"ok">>, !.gcc = <<"ok">>,
                                 !.ld = "ok", !.elf = <<elf>>,
                                 !.readelf_S = "ok", !.objcopy_code = "ok",
                                 !.objcopy_data = "ok", !.nm = nm_answer]
    /\ exitcode = Running
    /\ tmpdir = TRUE
    /\ wsfiles = {"component.ld", "main.o", "component.elf"}
    /\ strays = {}
    /\ obj_files = <<"main.o">>
    /\ code = CodeBlob(elf)
    /\ data = DataBlob(elf, SectionTable(elf), TRUE)
    /\ bss_size = SizeOr(SectionTable(elf), "bss", 0)
    /\ relocations = <<>>
    /\ got_reloc_count = 0
    /\ ebin_data = <<>>
    /\ outfile = [exists |-> FALSE, bytes |-> <<>>]
    /\ run = 1
    /\ produced = <<>>

InitEntry ==
    /\ \E e \in EntrySymbols :
          config = [sources |-> <<"main.c">>, component_type |-> "cpu",
                    entry_symbol |-> e, interface_version |-> 65536,
                    min_ram |-> 0, flags |-> 0, toolchain_prefix |-> Prefixes[1]]
    /\ \E elf \in EntryFamily : Extracted(elf, None)
    /\ pc = "entry"
    /\ entry_offset = 0

NextEntry == GetEntryOffset

SpecEntry == InitEntry /\ [][NextEntry]_vars

-----------------------------------------------------------------------------
(* extract_relocations on its own: main has come to "Extract relocations"    *)
(* with an ELF for which readelf -r prints any sequence of relocation        *)
(* section headers and entries.                                              *)

MaxLines == 4

\* The lines readelf -r may print: the headers of three relocation sections,
\* and entries of two types at two addresses.
LinePool ==
    {[kind |-> "section", name |-> n, offset |-> 0, type |-> ""] :
        n \in {".rela.text", ".rela.data", ".rela.rodata"}}
    \cup {[kind |-> "entry", name |-> "", offset |-> 8, type |-> t] :
              t \in {"R_RISCV_32", "R_RISCV_PCREL_HI20"}}
    \cup {[kind |-> "entry", name |-> "", offset |-> 4, type |-> "R_RISCV_32"]}

\* ELFs with .text at 0, .rodata at 4 and .data at 8, without a GOT.
ScanFamily ==
    {[base |-> 0, text |-> 4, rodata |-> 4, data |-> 8, data_relocs |-> <<>>,
      got |-> 0, bss |-> 0, listing |-> l] : l \in SeqsUpTo(LinePool, MaxLines)}

InitScan ==
    /\ config = [sources |-> <<"main.c">>, component_type |-> "cpu",
                 entry_symbol |-> "component_entry", interface_version |-> 65536,
                 min_ram |-> 0, flags |-> 0, toolchain_prefix |-> Prefixes[1]]
    /\ \E elf \in ScanFamily : Extracted(elf, "ok")
    /\ pc = "relocs"
    /\ entry_offset = 0

NextScan == ExtractRelocations

SpecScan == InitScan /\ [][NextScan]_vars

-----------------------------------------------------------------------------
(* Reading an EBIN stream back, as the loader's ebin_header_t lays it out *)

\* The header field `name` of stream s.
Field(s, name) ==
    CASE name = "magic" -> UnpackLE(s, 0, 4)
      [] name = "version" -> UnpackLE(s, 4, 2)
      [] name = "type" -> UnpackLE(s, 6, 2)
      [] name = "flags" -> UnpackLE(s, 8, 4)
      [] name = "code_size" -> UnpackLE(s, 12, 4)
      [] name = "data_size" -> UnpackLE(s, 16, 4)
      [] name = "bss_size" -> UnpackLE(s, 20, 4)
      [] name = "entry_offset" -> UnpackLE(s, 24, 4)
      [] name = "interface_version" -> UnpackLE(s, 28, 4)
      [] name = "min_ram" -> UnpackLE(s, 32, 4)
      [] name = "reloc_count" -> UnpackLE(s, 36, 4)
      [] name = "reloc_offset" -> UnpackLE(s, 40, 4)
      [] name = "code_offset" -> UnpackLE(s, 44, 4)
      [] name = "data_offset" -> UnpackLE(s, 48, 4)
      [] name = "symbol_offset" -> UnpackLE(s, 52, 4)
      [] name = "symbol_count" -> UnpackLE(s, 56, 4)

\* The n bytes of s from offset o.
Bytes(s, o, n) == SubSeq(s, o + 1, o + n)

\* Entry i (1-based) of the relocation table of stream s.
TableEntry(s, i) ==
    LET at == Field(s, "reloc_offset") + RELOC_ENTRY_SIZE * (i - 1)
    IN  [offset |-> UnpackLE(s, at, 4), reloc_type |-> UnpackLE(s, at + 4, 1),
         section |-> UnpackLE(s, at + 5, 1), pad |-> UnpackLE(s, at + 6, 2)]

\* build_ebin has returned a stream.
Built == ebin_data # <<>>

-----------------------------------------------------------------------------
(* Claims *)

\* C1: in every stream build_ebin returns, reloc_offset = 60, code_offset =
\* 60 + 8*reloc_count, data_offset = code_offset + code_size, code_size is a
\* multiple of 4, and the stream's length is data_offset + data_size.
C1_Layout ==
    Built =>
        /\ Len(ebin_data) >= HEADER_SIZE
        /\ Field(ebin_data, "reloc_offset") = 60
        /\ Field(ebin_data, "code_offset") = 60 + 8 * Field(ebin_data, "reloc_count")
        /\ Field(ebin_data, "data_offset") =
              Field(ebin_data, "code_offset") + Field(ebin_data, "code_size")
        /\ Field(ebin_data, "code_size") % 4 = 0
        /\ Len(ebin_data) =
              Field(ebin_data, "data_offset") + Field(ebin_data, "data_size")

\* build_ebin returned for a code blob that needs padding, two relocations
\* and a non-empty data blob.
C1_Witness ==
    /\ Built
    /\ pc = "open"
    /\ Len(code) % 4 = 1
    /\ Len(relocations) = 2
    /\ Len(data) > 0

\* C2: every produced EBIN starts with a header of exactly 60 bytes (what
\* follows the header is the relocation table, the padded code and the data),
\* whose magic is 0x4E494245, whose version is 1 and whose symbol_offset and
\* symbol_count are zero.
C2_Header ==
    Built =>
        /\ Len(ebin_data) - 8 * Len(relocations) - Align4(Len(code)) - Len(data) = 60
        /\ Field(ebin_data, "magic") = 1313423941
        /\ Field(ebin_data, "version") = 1
        /\ Field(ebin_data, "symbol_offset") = 0
        /\ Field(ebin_data, "symbol_count") = 0

\* build_ebin returned a stream for a debug build of an io component.
C2_Witness ==
    /\ Built
    /\ pc = "open"
    /\ config.component_type = "io"
    /\ Field(ebin_data, "flags") = 2
    /\ Field(ebin_data, "type") = 4

\* C3: reading the 60-byte header, then reloc_count entries of 8 bytes, then
\* code_size bytes, then data_size bytes takes the whole stream, and what was
\* read is the relocation list, the code blob zero-padded to a multiple of 4,
\* and the data blob that build_ebin was given.
C3_RoundTrip ==
    Built =>
        LET s == ebin_data
            n == Field(s, "reloc_count")
            cs == Field(s, "code_size")
            ds == Field(s, "data_size")
            code_read == Bytes(s, 60 + 8 * n, cs)
            data_read == Bytes(s, 60 + 8 * n + cs, ds)
        IN  /\ Len(s) >= 60
            /\ 60 + 8 * n + cs + ds = Len(s)
            /\ n = Len(relocations)
            /\ \A i \in 1..n :
                  TableEntry(s, i) =
                      [offset |-> relocations[i].offset,
                       reloc_type |-> relocations[i].reloc_type,
                       section |-> relocations[i].section, pad |-> 0]
            /\ cs >= Len(code) /\ cs < Len(code) + 4
            /\ SubSeq(code_read, 1, Len(code)) = code
            /\ \A k \in (Len(code) + 1)..cs : code_read[k] = 0
            /\ data_read = data

\* build_ebin returned a stream holding a relocation whose type and section
\* differ, a code blob that needed padding, and data.
C3_Witness ==
    /\ Built
    /\ pc = "open"
    /\ Len(code) % 4 = 3
    /\ Len(data) > 0
    /\ \E i \in 1..Len(relocations) :
          /\ relocations[i].reloc_type = 3
          /\ relocations[i].offset = 260


\* C4: every relocation in the table of a produced EBIN has reloc_type 0,
\* section 0 or 1, an offset that is a multiple of 4, and offset + 4 within
\* code_size (section 0) or data_size (section 1).
C4_RelocBounds ==
    Built =>
        \A i \in 1..Field(ebin_data, "reloc_count") :
            LET r == TableEntry(ebin_data, i)
            IN  /\ r.reloc_type = 0
                /\ r.section \in {0, 1}
                /\ r.offset % 4 = 0
                /\ r.offset + 4 <= (IF r.section = 0
                                    THEN Field(ebin_data, "code_size")
                                    ELSE Field(ebin_data, "data_size"))

\* C5: in every produced EBIN the header's entry_offset is strictly less
\* than the header's code_size.
C5_EntryInRange ==
    Built => Field(ebin_data, "entry_offset") < Field(ebin_data, "code_size")

\* C6: for every synthesized GOT relocation (the last got_reloc_count entries
\* of the table) with offset o, the data blob of the produced EBIN holds a
\* little-endian word at o..o+4 that is greater than 0 and at most
\* code_size + data_size + bss_size of the header.
C6_GotWordInImage ==
    Built =>
        LET s == ebin_data
            n == Field(s, "reloc_count")
        IN  \A i \in (n - got_reloc_count + 1)..n :
                LET o == TableEntry(s, i).offset
                    v == UnpackLE(s, Field(s, "data_offset") + o, 4)
                IN  /\ o + 4 <= Field(s, "data_size")
                    /\ 0 < v
                    /\ v <= Field(s, "code_size") + Field(s, "data_size")
                               + Field(s, "bss_size")


\* C7: the successful runs of the tool on the same inputs, with the same
\* toolchain answers, leave byte-identical files, whatever the earlier runs
\* left behind.
C7_Deterministic ==
    \A i, j \in 1..Len(produced) : produced[i] = produced[j]

\* Two runs have written the output, the second over the first's, for an
\* ELF with relocations.
C7_Witness ==
    /\ Len(produced) = 2
    /\ run = 2
    /\ pc = "done"
    /\ exitcode = Exited(0)
    /\ Len(relocations) > 0

\* nm ran and printed no line for the entry symbol of the command line.
EntrySymbolAbsent ==
    /\ toolout.elf # <<>>
    /\ toolout.nm = "ok"
    /\ \A i \in 1..Len(SymbolTable(TheElf)) :
          SymbolTable(TheElf)[i].name # config.entry_symbol

\* C8: when the entry symbol is absent from the linked ELF's symbol table the
\* run ends with a nonzero exit status, never reaches the serializer, and no
\* step changes the output file.
C8_MissingEntryAborts ==
    /\ [](EntrySymbolAbsent =>
            /\ pc \in {"relocs", "cleanup", "done"}
            /\ pc = "relocs" => exitcode = Exited(1)
            /\ pc = "done" => exitcode = Exited(1)
            /\ ~Built)
    /\ [][EntrySymbolAbsent' => outfile' = outfile]_vars

\* A run ended with status 1 after nm succeeded without the entry symbol.
C8_Witness ==
    /\ EntrySymbolAbsent
    /\ pc = "done"
    /\ exitcode = Exited(1)
    /\ ~tmpdir

\* C9: once the stream is built, whatever happens in the write step, the
\* output path holds what it held before the run (or no file), or the
\* complete EBIN.
C9_AtomicWrite ==
    (Built /\ pc = "done") =>
        outfile \in {[exists |-> FALSE, bytes |-> <<>>],
                     [exists |-> TRUE, bytes |-> OldContent],
                     [exists |-> TRUE, bytes |-> ebin_data]}

\* C10: on every path (success, compile failure, link failure, failure of an
\* extraction stage) the workspace directory, once created, is eventually
\* destroyed.
C10_WorkspaceDestroyed == tmpdir ~> ~tmpdir

\* A run whose link failed has ended with the workspace gone.
C10_Witness ==
    /\ pc = "done"
    /\ toolout.ld = "fail"
    /\ exitcode = Exited(1)
    /\ ~tmpdir
    /\ wsfiles = {}

\* C11: every file the pipeline creates other than the output lives inside
\* the workspace directory: at no point of a run, and after no run, is there
\* a file of the run outside the workspace other than the output EBIN.
C11_OnlyOutputOutside == strays = {}

\* The output path as it was before the run.
OutputUntouched ==
    outfile \in {[exists |-> FALSE, bytes |-> <<>>],
                 [exists |-> TRUE, bytes |-> OldContent]}

\* C12: the probe runs the candidates in order, goes on to the next after a
\* missing executable or a nonzero exit, and returns the first prefix whose
\* gcc exits 0; when the last candidate has failed too, the run ends with a
\* nonzero status with no workspace created and the output untouched.
C12_FirstWorkingPrefix ==
    toolout.probe # <<>> =>
        LET o == toolout.probe
        IN  /\ \A k \in 1..(Len(o) - 1) : o[k] \in {"missing", "nonzero"}
            /\ IF Last(o) = "ok"
               THEN config.toolchain_prefix = Prefixes[Len(o)]
               ELSE /\ Len(o) = Len(Prefixes)
                    /\ pc = "done"
                    /\ exitcode = Exited(1)
                    /\ ~tmpdir
                    /\ wsfiles = {}
                    /\ toolout.gcc = <<>>
                    /\ OutputUntouched
                    /\ ~Built

\* The first candidate is not installed, the second exits nonzero, and the
\* run has ended.
C12_Witness ==
    /\ toolout.probe = <<"missing", "nonzero">>
    /\ pc = "done"
    /\ exitcode = Exited(1)
    /\ config.toolchain_prefix = None

\* C13: the object files of a build are distinct, one per source, and a
\* command line with two sources of the same basename is rejected: the
\* linker is not run on it and the run does not succeed.
C13_CollisionRejected ==
    LET src == config.sources
        collide == \E i, j \in 1..Len(src) : i < j /\ ObjName(src[i]) = ObjName(src[j])
    IN  /\ \A i, j \in 1..Len(obj_files) : i # j => obj_files[i] # obj_files[j]
        /\ collide => (toolout.ld = None /\ exitcode # Exited(0))

\* No tool after the compiler has been run.
NothingAfterCompile ==
    /\ toolout.ld = None
    /\ toolout.elf = <<>>
    /\ toolout.readelf_S = None
    /\ toolout.objcopy_code = None
    /\ toolout.objcopy_data = None
    /\ toolout.nm = None
    /\ toolout.readelf_r = None
    /\ toolout.readelf_x = None

\* C14: when the compiler exits nonzero for a source, that source is the
\* last one compiled, no object is recorded for it, no later tool is run,
\* the run is on its way out with status 1, and the output is untouched.
C14_CompileFailureAborts ==
    \A i \in 1..Len(toolout.gcc) :
        toolout.gcc[i] = "fail" =>
            /\ i = Len(toolout.gcc)
            /\ Len(obj_files) = i - 1
            /\ NothingAfterCompile
            /\ pc \in {"cleanup", "done"}
            /\ exitcode = Exited(1)
            /\ OutputUntouched
            /\ ~Built

\* The second of two sources failed to compile and the run has ended.
C14_Witness ==
    /\ toolout.gcc = <<"ok", "fail">>
    /\ pc = "done"
    /\ exitcode = Exited(1)
    /\ ~tmpdir

\* C15: when the linker exits nonzero no extraction tool is run, nothing is
\* extracted, the run is on its way out with status 1, and the output is
\* untouched.
C15_LinkFailureAborts ==
    toolout.ld = "fail" =>
        /\ toolout.readelf_S = None
        /\ toolout.objcopy_code = None
        /\ toolout.objcopy_data = None
        /\ toolout.nm = None
        /\ toolout.readelf_r = None
        /\ toolout.readelf_x = None
        /\ code = <<>> /\ data = <<>> /\ relocations = <<>>
        /\ pc \in {"cleanup", "done"}
        /\ exitcode = Exited(1)
        /\ OutputUntouched
        /\ ~Built

\* Two sources compiled, the link failed and the run has ended.
C15_Witness ==
    /\ toolout.ld = "fail"
    /\ Len(obj_files) = 2
    /\ pc = "done"
    /\ exitcode = Exited(1)
    /\ strays = {}

\* One of the tools of the section extractor, the entry resolver or the
\* relocation extractor has exited nonzero.
ExtractionToolFailed ==
    \E t \in {"readelf_S", "objcopy_code", "objcopy_data", "nm", "readelf_r",
               "readelf_x"} : toolout[t] \notin {None, "ok"}

\* C16: once readelf, objcopy or nm has exited nonzero the run is on its way
\* out with a nonzero status: no later stage uses a result made up for the
\* failed tool, no EBIN is built and the output is untouched.
C16_ToolFailureFatal ==
    ExtractionToolFailed =>
        /\ pc \in {"cleanup", "done"}
        /\ exitcode = Exited(1)
        /\ ~Built
        /\ OutputUntouched

\* C17: when the section table of the linked ELF has no .text line, the
\* section extractor does not return: the run is on its way out with a
\* nonzero status and no EBIN is built.
C17_MissingTextFatal ==
    (toolout.elf # <<>> /\ toolout.readelf_S = "ok" /\ TheElf.text = 0) =>
        /\ pc \in {"cleanup", "done"}
        /\ exitcode = Exited(1)
        /\ ~Built

\* C18: when the section extractor's tools succeed it returns and the entry
\* stage is next, whichever of .data, .got and .bss the ELF lacks: without
\* .bss bss_size is 0, without .got the data blob is .data alone, without
\* .data it is the GOT alone, without both it is empty.
C18_MissingSectionsEmpty ==
    (toolout.elf # <<>> /\ toolout.readelf_S = "ok" /\ toolout.objcopy_code = "ok"
        /\ toolout.objcopy_data # None) =>
        LET elf == TheElf
        IN  /\ toolout.nm = None => (pc = "entry" /\ exitcode = Running)
            /\ elf.bss = 0 => bss_size = 0
            /\ (elf.data = 0 /\ elf.got = 0) => data = <<>>
            /\ (toolout.objcopy_data = "ok" /\ elf.got = 0) => Len(data) = elf.data
            /\ (toolout.objcopy_data = "ok" /\ elf.data = 0) =>
                  /\ Len(data) = 4 * elf.got
                  /\ \A i \in 1..elf.got : UnpackLE(data, 4 * (i - 1), 4) = GotWord(i)

\* An ELF with neither .data nor .got nor .bss went through the pipeline
\* and its EBIN was written.
C18_Witness ==
    /\ toolout.elf # <<>>
    /\ TheElf.data = 0 /\ TheElf.got = 0 /\ TheElf.bss = 0
    /\ toolout.objcopy_data = "ok"
    /\ pc = "done"
    /\ exitcode = Exited(0)
    /\ Len(produced) = 1

\* C19: when get_entry_offset returns, the entry offset is the address nm
\* gives for the entry symbol minus the address of .text in the section
\* table, or minus 0 when the table has no .text.
C19_EntryOffset ==
    (pc = "relocs" /\ toolout.nm = "ok") =>
        LET elf == TheElf
            data_address == Align4(Align4(elf.base + elf.text) + elf.rodata)
            entry_address == IF config.entry_symbol = "component_entry"
                             THEN elf.base ELSE data_address
            text_base == IF elf.text > 0 THEN elf.base ELSE 0
        IN  entry_offset = entry_address - text_base

\* The entry symbol is a variable in .data at address 20 of an ELF whose
\* .text lies at 16, and the resolver has returned.
C19_Witness ==
    /\ pc = "relocs"
    /\ toolout.nm = "ok"
    /\ TheElf.base = 16
    /\ TheElf.text = 4
    /\ TheElf.rodata = 0
    /\ config.entry_symbol = "state"
    /\ entry_offset = 4

\* C20: the relocations mined from a listing are, in order, those of its
\* R_RISCV_32 entries whose nearest preceding relocation section header is
\* that of .rela.data or .rela.rodata, each with section 1 and the offset
\* relative to that section; no other line yields a relocation.
C20_OnlyAbsoluteDataRelocs ==
    (pc = "cleanup" /\ toolout.readelf_r = "ok") =>
        LET lines == TheElf.listing
            Headers(k) == {j \in 1..(k - 1) : lines[j].kind = "section"}
            HeaderOf(k) == CHOOSE j \in Headers(k) : \A i \in Headers(k) : i <= j
            Eligible == {k \in 1..Len(lines) :
                            /\ lines[k].kind = "entry"
                            /\ lines[k].type = "R_RISCV_32"
                            /\ Headers(k) # {}
                            /\ lines[HeaderOf(k)].name \in {".rela.data", ".rela.rodata"}}
            Rank(k) == Cardinality({j \in Eligible : j <= k})
            BaseOf(k) == IF lines[HeaderOf(k)].name = ".rela.data" THEN 8 ELSE 4
        IN  /\ Len(relocations) = Cardinality(Eligible)
            /\ \A k \in Eligible :
                  relocations[Rank(k)] =
                      [offset |-> lines[k].offset - BaseOf(k), reloc_type |-> 0,
                       section |-> 1]

\* A listing with an R_RISCV_32 under .rela.data followed by .rela.text
\* with an R_RISCV_32 of its own was scanned.
C20_Witness ==
    /\ pc = "cleanup"
    /\ toolout.readelf_r = "ok"
    /\ Len(TheElf.listing) = 4
    /\ TheElf.listing[1].name = ".rela.data"
    /\ TheElf.listing[2].type = "R_RISCV_32"
    /\ TheElf.listing[3].name = ".rela.text"
    /\ TheElf.listing[4].type = "R_RISCV_32"
    /\ Len(relocations) = 1

\* The relocation listing has been scanned.
Scanned == pc = "cleanup" /\ toolout.readelf_r = "ok"

\* The name on the nearest relocation section header above line k of the
\* listing ("" when there is none).
TargetOf(lines, k) ==
    LET above == {j \in 1..(k - 1) : lines[j].kind = "section"}
    IN  IF above = {} THEN ""
        ELSE lines[CHOOSE j \in above : \A i \in above : i <= j].name

\* The lines of the listing that are R_RISCV_32 entries of the relocation
\* section `name`.
AbsoluteEntries(lines, name) ==
    {k \in 1..Len(lines) : /\ lines[k].kind = "entry"
                           /\ lines[k].type = "R_RISCV_32"
                           /\ TargetOf(lines, k) = name}

\* C21: every relocation mined from the listing has type ABSOLUTE and
\* section 1, and its offset is the offset reported on an R_RISCV_32 line
\* of .rela.data minus the address of .data, or of .rela.rodata minus the
\* address of .rodata.
C21_SectionRelativeOffsets ==
    Scanned =>
        LET elf == TheElf
            lines == elf.listing
            rodata_base == Align4(elf.base + elf.text)
            data_base == Align4(rodata_base + elf.rodata)
        IN  \A i \in 1..Len(relocations) :
                /\ relocations[i].reloc_type = 0
                /\ relocations[i].section = 1
                /\ \/ \E k \in AbsoluteEntries(lines, ".rela.data") :
                         relocations[i].offset = lines[k].offset - data_base
                   \/ \E k \in AbsoluteEntries(lines, ".rela.rodata") :
                         relocations[i].offset = lines[k].offset - rodata_base

\* A listing with one R_RISCV_32 at address 8 under .rela.rodata and one
\* under .rela.data was scanned into offsets 4 and 0.
C21_Witness ==
    /\ Scanned
    /\ Len(TheElf.listing) = 4
    /\ TheElf.listing[1].name = ".rela.rodata"
    /\ TheElf.listing[3].name = ".rela.data"
    /\ Len(relocations) = 2
    /\ relocations[1].offset = 4
    /\ relocations[2].offset = 0

\* C22: when the listing has an R_RISCV_32 under .rela.rodata, either the
\* build is refused (the run is on its way out with a nonzero status) or
\* no relocation of section 1 is emitted for it: every emitted relocation
\* of section 1 stems from .rela.data, and each .rela.rodata entry is
\* emitted with section 0 and its offset relative to the code blob.
C22_RodataNotInDataBlob ==
    (Scanned /\ AbsoluteEntries(TheElf.listing, ".rela.rodata") # {}) =>
        \/ exitcode = Exited(1)
        \/ LET elf == TheElf
               lines == elf.listing
           IN  /\ Cardinality({i \in 1..Len(relocations) : relocations[i].section = 1})
                     = Cardinality(AbsoluteEntries(lines, ".rela.data"))
               /\ \A k \in AbsoluteEntries(lines, ".rela.rodata") :
                     \E i \in 1..Len(relocations) :
                         /\ relocations[i].section = 0
                         /\ relocations[i].offset = lines[k].offset - elf.base

\* C24: no two entries of the relocation list the extractor returns have
\* the same section and offset.
C24_Deduplicated ==
    (pc = "cleanup" /\ toolout.readelf_r # None) =>
        \A i, j \in 1..Len(relocations) :
            (i # j) =>
                \/ relocations[i].section # relocations[j].section
                \/ relocations[i].offset # relocations[j].offset

\* The addresses the linker script gives .data, .got and .bss of ELF elf.
DataAddress(elf) == Align4(Align4(elf.base + elf.text) + elf.rodata)
GotAddress(elf) == Align4(DataAddress(elf) + elf.data)
BssAddress(elf) == Align4(GotAddress(elf) + 4 * elf.got)

\* A - data_base for GOT entry i (1-based), data_base being 0 when the
\* section table has no .data.
GotOffset(elf, i) ==
    GotAddress(elf) + 4 * (i - 1) - (IF elf.data > 0 THEN DataAddress(elf) ELSE 0)

\* The offsets of the synthesized relocations: those of the last
\* got_reloc_count entries of the list.
SynthesizedOffsets ==
    {relocations[i].offset :
        i \in (Len(relocations) - got_reloc_count + 1)..Len(relocations)}

\* C23: for every entry of a non-empty .got, at address A and storing the
\* word V, a relocation with offset A - data_base, type ABSOLUTE and
\* section 1 is synthesized exactly when A - data_base is not the offset of
\* a relocation mined for the data blob and 0 < V <= bss_base + bss_size;
\* nothing is synthesized without a .got.
C23_GotCoverage ==
    (toolout.readelf_r = "ok" /\ (TheElf.got = 0 \/ toolout.readelf_x = "ok")) =>
        LET elf == TheElf
            m == Len(relocations) - got_reloc_count
            mined == {relocations[i].offset : i \in 1..m}
            bss_end == IF elf.bss > 0 THEN BssAddress(elf) + elf.bss ELSE 0
            expected == {GotOffset(elf, i) :
                            i \in {j \in 1..elf.got :
                                      0 < GotWord(j) /\ GotWord(j) <= bss_end}}
                        \ mined
        IN  /\ SynthesizedOffsets = expected
            /\ got_reloc_count = Cardinality(expected)
            /\ \A i \in (m + 1)..Len(relocations) :
                  relocations[i].reloc_type = 0 /\ relocations[i].section = 1

\* C25: the extractor's list is the relocations of the listing in the order
\* of their lines, followed by the synthesized GOT relocations in ascending
\* address, and the table of the EBIN holds the entries of the list in the
\* list's order.
C25_OrderPreserved ==
    toolout.readelf_r = "ok" =>
        LET elf == TheElf
            n == Len(relocations)
            m == n - got_reloc_count
        IN  /\ m = Len(elf.data_relocs)
            /\ \A i \in 1..m : relocations[i].offset = elf.data_relocs[i]
            /\ \A i, j \in (m + 1)..n :
                  i < j => relocations[i].offset < relocations[j].offset
            /\ Built =>
                  /\ Field(ebin_data, "reloc_count") = n
                  /\ \A i \in 1..n :
                        /\ TableEntry(ebin_data, i).offset = relocations[i].offset
                        /\ TableEntry(ebin_data, i).section = relocations[i].section
                        /\ TableEntry(ebin_data, i).reloc_type = relocations[i].reloc_type

\* An EBIN was written whose table holds two mined relocations, the second
\* at the lower offset, followed by synthesized ones.
C25_Witness ==
    /\ pc = "done"
    /\ exitcode = Exited(0)
    /\ toolout.readelf_r = "ok"
    /\ TheElf.data_relocs = <<4, 0>>
    /\ got_reloc_count >= 2
    /\ Field(ebin_data, "reloc_count") = 2 + got_reloc_count

C26_CodePadding ==
    Built =>
        LET s == ebin_data
            cs == Field(s, "code_size")
            co == Field(s, "code_offset")
            pad == cs - Len(code)
            region == Bytes(s, co, cs)
        IN  /\ IF Len(code) % 4 = 0 THEN pad = 0 ELSE pad \in 1..3
            /\ cs % 4 = 0
            /\ SubSeq(region, 1, Len(code)) = code
            /\ \A k \in (Len(code) + 1)..cs : region[k] = 0
            /\ Field(s, "data_offset") = co + cs

\* build_ebin returned for a code blob of two bytes, padded to four.
C26_Witness ==
    /\ Built
    /\ pc = "open"
    /\ Len(code) = 2
    /\ Field(ebin_data, "code_size") = 4
    /\ Bytes(ebin_data, Field(ebin_data, "code_offset"), 4) = <<17, 18, 0, 0>>

\* The position of main in the order of its stages.
StageRank(p) ==
    CASE p = "probe" -> 1
      [] p = "workspace" -> 2
      [] p = "compile" -> 3
      [] p = "link" -> 4
      [] p = "sections" -> 5
      [] p = "entry" -> 6
      [] p = "relocs" -> 7
      [] p = "cleanup" -> 8
      [] p = "build" -> 9
      [] p = "open" -> 10
      [] p = "write" -> 11
      [] p = "done" -> 12

\* C27: a run never goes back to a stage (the compile stage stays for one
\* compiler run per source), a stage's tools have run only when every
\* earlier stage succeeded, the serializer has run only after the
\* relocation extractor, and the output file is touched only after the
\* serializer.
C27_StageOrder ==
    /\ [][\/ StageRank(pc') > StageRank(pc)
          \/ /\ pc = "compile" /\ pc' = "compile"
             /\ Len(toolout'.gcc) = Len(toolout.gcc) + 1]_vars
    /\ [](/\ Len(toolout.gcc) <= Len(config.sources)
          /\ toolout.gcc # <<>> =>
                (toolout.probe # <<>> /\ Last(toolout.probe) = "ok")
          /\ toolout.ld # None =>
                /\ Len(toolout.gcc) = Len(config.sources)
                /\ \A i \in 1..Len(toolout.gcc) : toolout.gcc[i] = "ok"
          /\ toolout.readelf_S # None => toolout.ld = "ok"
          /\ toolout.nm # None =>
                (toolout.readelf_S = "ok" /\ toolout.objcopy_code = "ok")
          /\ toolout.readelf_r # None =>
                /\ toolout.nm = "ok"
                /\ \E i \in 1..Len(SymbolTable(TheElf)) :
                      SymbolTable(TheElf)[i].name = config.entry_symbol
          /\ Built => (toolout.readelf_r # None /\ StageRank(pc) > 9)
          /\ ~OutputUntouched => (Built /\ StageRank(pc) > 10))

\* A run over two sources went through every stage and wrote the stream.
C27_Witness ==
    /\ pc = "done"
    /\ exitcode = Exited(0)
    /\ Len(toolout.gcc) = 2
    /\ toolout.readelf_x = "ok"
    /\ outfile.bytes = ebin_data
    /\ ~tmpdir

=============================================================================
